---- MODULE Spec2Model ----
(***************************************************************************)
(* A model of the gogs-cli command run: main -> dispatch -> issue::handle  *)
(* -> one handler, with the HTTP transport as the nondeterministic         *)
(* environment.  Strings are sequences of byte values, so that String::cmp *)
(* and eq_ignore_ascii_case act on them as they do in Rust.                *)
(***************************************************************************)
EXTENDS Integers, Sequences, FiniteSets, TLC

VARIABLES pc, cmd, config, profile, target, requests, stdout, stderr, result, exit,
          repos, tasks, next_handle, all_issues, issues, repo_labels,
          label

vars == <<pc, cmd, config, profile, target, requests, stdout, stderr, result, exit,
          repos, tasks, next_handle, all_issues, issues, repo_labels,
          label>>

-----------------------------------------------------------------------------
(* Bounds *)

\* the largest number of repositories the enumerator returns
MaxRepos == 2

-----------------------------------------------------------------------------
(* Values *)

None == [some |-> FALSE, v |-> <<>>]
Some(x) == [some |-> TRUE, v |-> x]

NoErr == [kind |-> "none", detail |-> <<>>]
Error(k, d) == [kind |-> k, detail |-> d]
Ok(x) == [ok |-> TRUE, v |-> x, err |-> NoErr]
Err(e) == [ok |-> FALSE, v |-> <<>>, err |-> e]

\* "bug", "Bug", "BUG", "ui", "UI", "b-1", "zz"
s_bug == <<98, 117, 103>>
s_Bug == <<66, 117, 103>>
s_BUG == <<66, 85, 71>>
s_ui == <<117, 105>>
s_UI == <<85, 73>>
s_b1 == <<98, 45, 49>>
s_zz == <<122, 122>>
\* "hi", "", "[A]", "[A] hi", "T"
s_hi == <<104, 105>>
s_empty == <<>>
s_sigA == <<91, 65, 93>>
s_sigA_hi == <<91, 65, 93, 32, 104, 105>>
s_T == <<84>>
\* "a/x", "a/xy": repository names on the command line and in the config
s_a_x == <<97, 47, 120>>
s_a_xy == <<97, 47, 120, 121>>

\* types.rs Label: id and name (color plays no part in any operation)
Label(i, n) == [id |-> i, name |-> n]
\* types.rs Issue: number and labels (the other fields are carried along unchanged)
Issue(n, ls) == [number |-> n, labels |-> ls]
\* types.rs Repository: full_name, owner.username, name
Repository(o, n) == [full_name |-> o \o <<47>> \o n, owner |-> o, name |-> n]

i1 == Issue(1, <<Label(1, s_bug)>>)
i2 == Issue(2, <<Label(2, s_Bug), Label(3, s_ui)>>)
i3 == Issue(3, <<>>)
i4 == Issue(4, <<Label(4, s_UI), Label(5, s_b1)>>)

\* the issue lists a list-issues response decodes to
IssueLists == {<<>>, <<i1, i3>>, <<i3, i2, i4>>}

\* the repositories visible to the identity, in any order the server lists them
RepoPool == {Repository(<<66>>, <<120>>), Repository(<<97>>, <<120>>),
             Repository(<<97>>, <<120, 121>>)}

RECURSIVE Enumerations(_)
Enumerations(n) ==
    IF n = 0 THEN {<<>>}
    ELSE LET shorter == Enumerations(n - 1)
         IN  shorter \cup
             {Append(s, r) : s \in {t \in shorter : Len(t) = n - 1},
                             r \in RepoPool}

\* what /user/repos decodes to: distinct repositories, at most MaxRepos
RepoLists ==
    {s \in Enumerations(MaxRepos) :
        \A i, j \in 1..Len(s) : i # j => s[i] # s[j]}

\* the label sets a repository can have
RepoLabelSets == {<<>>,
                  <<Label(1, s_bug), Label(2, s_ui)>>,
                  <<Label(7, s_b1), Label(8, s_Bug), Label(9, s_bug)>>}

-----------------------------------------------------------------------------
(* Pure functions *)

\* u8::to_ascii_lowercase, as used by str::eq_ignore_ascii_case
to_ascii_lowercase(c) == IF c >= 65 /\ c <= 90 THEN c + 32 ELSE c

eq_ignore_ascii_case(a, b) ==
    /\ Len(a) = Len(b)
    /\ \A i \in 1..Len(a) : to_ascii_lowercase(a[i]) = to_ascii_lowercase(b[i])

\* String::cmp is Less: byte-wise lexicographic, a proper prefix is smaller
str_lt(a, b) ==
    LET n == IF Len(a) < Len(b) THEN Len(a) ELSE Len(b)
        diff == {i \in 1..n : a[i] # b[i]}
    IN  IF diff = {} THEN Len(a) < Len(b)
        ELSE LET k == CHOOSE i \in diff : \A j \in diff : i <= j
             IN  a[k] < b[k]

\* faulty variant: the names are compared without regard to ASCII case
cmp_less_ignore_case(a, b) ==
    str_lt([i \in 1..Len(a[1]) |-> to_ascii_lowercase(a[1][i])],
           [i \in 1..Len(b[1]) |-> to_ascii_lowercase(b[1][i])])

\* the comparator of all_issues.sort_by: a.0.cmp(&b.0) is Less
cmp_less(a, b) == str_lt(a[1], b[1])

\* a stable insertion of x into the sorted vector v
RECURSIVE insert_sorted(_, _)
insert_sorted(v, x) ==
    IF v = <<>> THEN <<x>>
    ELSE IF cmp_less(x, v[Len(v)])
         THEN Append(insert_sorted(SubSeq(v, 1, Len(v) - 1), x), v[Len(v)])
         ELSE Append(v, x)

RECURSIVE stable_sort(_)
stable_sort(v) ==
    IF v = <<>> THEN <<>>
    ELSE insert_sorted(stable_sort(SubSeq(v, 1, Len(v) - 1)), v[Len(v)])

\* faulty variant: the vector is left in join order
no_sort(v) == v

\* all_issues.sort_by(|a, b| a.0.cmp(&b.0))
sort_by_repo_name(v) == stable_sort(v)

\* issue.labels.iter().any(|l| l.name.eq_ignore_ascii_case(label))
RECURSIVE issue_has_label(_, _)
issue_has_label(ls, name) ==
    IF ls = <<>> THEN FALSE
    ELSE IF eq_ignore_ascii_case(Head(ls).name, name) THEN TRUE
         ELSE issue_has_label(Tail(ls), name)

\* labels.iter().any(|label| issue.labels.iter().any(...))
RECURSIVE matches_any(_, _)
matches_any(issue, labels) ==
    IF labels = <<>> THEN FALSE
    ELSE IF issue_has_label(issue.labels, Head(labels)) THEN TRUE
         ELSE matches_any(issue, Tail(labels))

\* Vec::retain with that predicate
RECURSIVE retain(_, _)
retain(v, labels) ==
    IF v = <<>> THEN <<>>
    ELSE IF matches_any(Head(v), labels)
         THEN <<Head(v)>> \o retain(Tail(v), labels)
         ELSE retain(Tail(v), labels)

\* faulty variant: only the first filter term is matched
filter_keeps_first_only(v, labels) ==
    IF labels # <<>>
    THEN SelectSeq(v, LAMBDA i : issue_has_label(i.labels, Head(labels)))
    ELSE v

\* if !labels.is_empty() { issues.retain(...) }
filter_by_labels(v, labels) ==
    IF labels # <<>> THEN retain(v, labels) ELSE v

-----------------------------------------------------------------------------
(* Transport: api/client.rs *)

\* the HTTP statuses the server answers with
Statuses == {200, 201, 401, 403, 404, 500}

\* StatusCode::is_success
is_success(status) == status >= 200 /\ status <= 299

\* what comes back for one request: no response at all (connection error or
\* the 30 s timeout), or a status, a body text (None when it cannot be read)
\* and whether the body decodes as the expected JSON
Reply(sent, status, text, decodes) ==
    [sent |-> sent, status |-> status, text |-> text, decodes |-> decodes]

\* the replies the command runs are tried against
Replies ==
    {Reply(FALSE, 0, None, FALSE)} \cup
    {Reply(TRUE, s, Some(s_zz), d) : s \in Statuses, d \in BOOLEAN}

\* resp.text().await.unwrap_or_default()
unwrap_or_default(text) == IF text.some THEN text.v ELSE <<>>

\* faulty variant: only 4xx and 5xx statuses are errors
request_errors_from_400(reply) ==
    IF ~reply.sent THEN Err(Error("send", <<>>))
    ELSE IF reply.status >= 400
         THEN IF reply.status = 401 THEN Err(Error("auth", <<>>))
              ELSE IF reply.status = 404
                   THEN Err(Error("not_found", unwrap_or_default(reply.text)))
              ELSE IF reply.status = 403 THEN Err(Error("forbidden", <<>>))
              ELSE Err(Error("api", [status |-> reply.status,
                                     text |-> unwrap_or_default(reply.text)]))
         ELSE Ok(<<>>)

\* GogsClient::request: Ok(resp) or the error it bails with
request(reply) ==
    IF ~reply.sent THEN Err(Error("send", <<>>))
    ELSE IF ~is_success(reply.status)
         THEN IF reply.status = 401 THEN Err(Error("auth", <<>>))
              ELSE IF reply.status = 404
                   THEN Err(Error("not_found", unwrap_or_default(reply.text)))
              ELSE IF reply.status = 403 THEN Err(Error("forbidden", <<>>))
              ELSE Err(Error("api", [status |-> reply.status,
                                     text |-> unwrap_or_default(reply.text)]))
         ELSE Ok(<<>>)

\* let resp = self.get/post/patch(..).await?; let x = resp.json().await?; Ok(x)
json(reply, data) ==
    LET resp == request(reply)
    IN  IF ~resp.ok THEN resp
        ELSE IF ~reply.decodes THEN Err(Error("decode", <<>>))
        ELSE Ok(data)

\* a request as the transport sees it
Request(method, ep, owner, repo, number, arg, body) ==
    [method |-> method, ep |-> ep, owner |-> owner, repo |-> repo,
     number |-> number, arg |-> arg, body |-> body]

-----------------------------------------------------------------------------
(* Resource endpoints: api/issues.rs, api/repos.rs *)

\* GET /user/repos
req_list_user_repos == Request("GET", "user_repos", <<>>, <<>>, 0, <<>>, None)

\* GET /repos/{owner}/{repo}/issues?state={state}
req_list_issues(owner, repo, state) ==
    Request("GET", "issues", owner, repo, 0, <<state>>, None)

\* GET /repos/{owner}/{repo}/issues/{number}
req_get_issue(owner, repo, number) ==
    Request("GET", "issue", owner, repo, number, <<>>, None)

\* faulty variant: the signed body is sent as the title too
create_issue_payload_signed_title(title, body, labels) ==
    [title |-> (IF body.some THEN body.v ELSE <<>>)]
    @@ (IF body.some THEN [body |-> body.v] ELSE <<>>)
    @@ (IF labels # <<>> THEN [labels |-> labels] ELSE <<>>)

\* json!({"title": title}) with "body" and "labels" inserted when present
create_issue_payload(title, body, labels) ==
    [title |-> title]
    @@ (IF body.some THEN [body |-> body.v] ELSE <<>>)
    @@ (IF labels # <<>> THEN [labels |-> labels] ELSE <<>>)

\* POST /repos/{owner}/{repo}/issues
req_create_issue(owner, repo, title, body, labels) ==
    Request("POST", "issues", owner, repo, 0, <<>>,
            Some(create_issue_payload(title, body, labels)))

\* PATCH /repos/{owner}/{repo}/issues/{number} with {"state": state}
req_update_issue(owner, repo, number, state) ==
    Request("PATCH", "issue", owner, repo, number, <<>>,
            Some(IF state.some THEN [state |-> state.v] ELSE <<>>))

\* GET /repos/{owner}/{repo}/issues/{number}/comments
req_list_comments(owner, repo, number) ==
    Request("GET", "comments", owner, repo, number, <<>>, None)

\* POST /repos/{owner}/{repo}/issues/{number}/comments with {"body": body}
req_create_comment(owner, repo, number, body) ==
    Request("POST", "comments", owner, repo, number, <<>>,
            Some([body |-> body]))

\* GET /repos/{owner}/{repo}/labels
req_list_repo_labels(owner, repo) ==
    Request("GET", "labels", owner, repo, 0, <<>>, None)

\* POST /repos/{owner}/{repo}/issues/{number}/labels with {"labels": ids}
req_add_labels_to_issue(owner, repo, number, ids) ==
    Request("POST", "issue_labels", owner, repo, number, <<>>,
            Some([labels |-> ids]))

\* DELETE /repos/{owner}/{repo}/issues/{number}/labels/{label_id}
req_remove_label_from_issue(owner, repo, number, label_id) ==
    Request("DELETE", "issue_label", owner, repo, number, <<label_id>>, None)

-----------------------------------------------------------------------------
(* Config: config.rs *)

\* repo.split('/').collect()
RECURSIVE split_slash(_)
split_slash(s) ==
    IF \A i \in 1..Len(s) : s[i] # 47 THEN <<s>>
    ELSE LET k == CHOOSE i \in 1..Len(s) :
                      s[i] = 47 /\ \A j \in 1..(i - 1) : s[j] # 47
         IN  <<SubSeq(s, 1, k - 1)>> \o split_slash(SubSeq(s, k + 1, Len(s)))

\* parse_repo
parse_repo(repo) ==
    LET parts == split_slash(repo)
    IN  IF Len(parts) # 2 THEN Err(Error("repo_format", repo))
        ELSE Ok(<<parts[1], parts[2]>>)

\* Config::get_repo: the argument, else defaults.repo, else an error
get_repo(cfg, repo) ==
    IF repo.some THEN parse_repo(repo.v)
    ELSE IF cfg.default_repo.some THEN parse_repo(cfg.default_repo.v)
    ELSE Err(Error("repo_unspecified", <<>>))

\* Config::load, then Config::get_profile
load_profile(cfg) ==
    IF ~cfg.loaded THEN Err(Error("config", <<>>))
    ELSE IF ~cfg.has_profile THEN Err(Error("profile", <<>>))
    ELSE Ok(cfg.signature)

\* no config file read yet
NoConfig ==
    [loaded |-> FALSE, has_profile |-> FALSE, signature |-> <<>>,
     default_repo |-> None]

\* the config files a run can find
Configs ==
    {[loaded |-> FALSE, has_profile |-> FALSE, signature |-> <<>>,
      default_repo |-> None],
     [loaded |-> TRUE, has_profile |-> FALSE, signature |-> <<>>,
      default_repo |-> None]} \cup
    {[loaded |-> TRUE, has_profile |-> TRUE, signature |-> sg,
      default_repo |-> d] :
        sg \in {s_sigA, s_empty}, d \in {None, Some(s_a_xy)}}

-----------------------------------------------------------------------------
(* Signature: commands/issue.rs *)

\* faulty variant: a body that already starts with the signature is left alone
body_with_sig_once_only(signature, body) ==
    IF body.some
    THEN IF /\ Len(body.v) > Len(signature)
            /\ SubSeq(body.v, 1, Len(signature) + 1) = signature \o <<32>>
         THEN body.v
         ELSE signature \o <<32>> \o body.v
    ELSE signature

\* handle_create: Some(b) => format!("{} {}", signature, b), None => signature
body_with_sig(signature, body) ==
    IF body.some THEN signature \o <<32>> \o body.v ELSE signature

\* handle_comment: format!("{} {}", signature, text)
comment_with_sig(signature, text) == signature \o <<32>> \o text

-----------------------------------------------------------------------------
(* Label resolution: commands/issue.rs *)

\* faulty variant: the name is compared exactly
RECURSIVE find_label_exact(_, _)
find_label_exact(rl, label_name) ==
    IF rl = <<>> THEN None
    ELSE IF Head(rl).name = label_name THEN Some(Head(rl))
         ELSE find_label_exact(Tail(rl), label_name)

\* repo_labels.iter().find(|l| l.name.eq_ignore_ascii_case(label_name))
RECURSIVE find_label(_, _)
find_label(rl, label_name) ==
    IF rl = <<>> THEN None
    ELSE IF eq_ignore_ascii_case(Head(rl).name, label_name)
         THEN Some(Head(rl))
         ELSE find_label(Tail(rl), label_name)

\* faulty variant: an unknown name resolves to label id 0
resolve_label_or_default(rl, label_name) ==
    IF find_label(rl, label_name).some
    THEN Ok(find_label(rl, label_name).v)
    ELSE Ok(Label(0, label_name))

\* .context(format!("Label '{}' not found in repository", label_name))?
resolve_label(rl, label_name) ==
    LET found == find_label(rl, label_name)
    IN  IF found.some THEN Ok(found.v)
        ELSE Err(Error("label_not_found", label_name))

-----------------------------------------------------------------------------
(* Presentation: output.rs *)

\* format_issues_human: a header line per repository with issues, a line per
\* issue, then the summary line
RECURSIVE human_lines(_)
human_lines(v) ==
    IF v = <<>> THEN <<>>
    ELSE LET repo == Head(v)[1]
             repo_issues == Head(v)[2]
         IN  (IF repo_issues # <<>>
              THEN <<[t |-> "header", repo |-> repo]>> \o
                   [k \in 1..Len(repo_issues) |->
                       [t |-> "issue", issue |-> repo_issues[k]]]
              ELSE <<>>) \o human_lines(Tail(v))

\* faulty variant: every repository of the result is counted in the summary
format_issues_human_counts_all(v) ==
    LET lines == human_lines(v)
        total == Cardinality({k \in 1..Len(lines) : lines[k].t = "issue"})
    IN  IF total = 0 THEN lines \o <<[t |-> "no_issues"]>>
        ELSE lines \o <<[t |-> "total", total |-> total, repos |-> Len(v)]>>

\* the lines, then "No issues found." or the summary with the two counters
format_issues_human(v) ==
    LET lines == human_lines(v)
        total == Cardinality({k \in 1..Len(lines) : lines[k].t = "issue"})
        repo_count == Cardinality({k \in 1..Len(lines) : lines[k].t = "header"})
    IN  IF total = 0 THEN lines \o <<[t |-> "no_issues"]>>
        ELSE lines \o <<[t |-> "total", total |-> total, repos |-> repo_count]>>

\* faulty variant: the repositories' elements come out last repository first
RECURSIVE format_issues_json_reversed(_)
format_issues_json_reversed(v) ==
    IF v = <<>> THEN <<>>
    ELSE format_issues_json_reversed(Tail(v)) \o
         [k \in 1..Len(Head(v)[2]) |->
             [t |-> "json_issue", repo |-> Head(v)[1], issue |-> Head(v)[2][k]]]

\* format_issues_json: one IssueWithRepo per issue, flattened in order
RECURSIVE format_issues_json(_)
format_issues_json(v) ==
    IF v = <<>> THEN <<>>
    ELSE [k \in 1..Len(Head(v)[2]) |->
             [t |-> "json_issue", repo |-> Head(v)[1], issue |-> Head(v)[2][k]]]
         \o format_issues_json(Tail(v))

\* format_issue_list
format_issue_list(v, as_json) ==
    IF as_json THEN [fmt |-> "json", out |-> format_issues_json(v)]
    ELSE [fmt |-> "human", out |-> format_issues_human(v)]

\* the other format_* functions: what was printed, in which format
format_other(what, as_json) ==
    [fmt |-> IF as_json THEN "json" ELSE "human", out |-> <<[t |-> what]>>]

-----------------------------------------------------------------------------
(* main.rs, error.rs *)

\* GogsError::exit_code: never called by main
exit_code(err) == IF err.kind = "not_found" THEN 2 ELSE 1

\* main: Ok(()) => ExitCode::SUCCESS, Err(e) => ExitCode::FAILURE
main_exit_code(res) == IF res.ok THEN 0 ELSE 1

-----------------------------------------------------------------------------
(* Command line: cli.rs *)

Cmd(kind, js, all, open, closed, repo, labels, number, title, body, text, lb) ==
    [kind |-> kind, json |-> js, all |-> all, open |-> open,
     closed |-> closed, repo |-> repo, labels |-> labels, number |-> number,
     title |-> title, body |-> body, text |-> text, label |-> lb]

NoCmd == Cmd("none", FALSE, FALSE, FALSE, FALSE, None, <<>>, 0, <<>>, None,
             <<>>, <<>>)

\* --repo values: absent, "a/x", "ax", "/x", "a/", "a/x/y"
RepoArgs == {None, Some(s_a_x), Some(<<97, 120>>), Some(<<47, 120>>),
             Some(<<97, 47>>), Some(<<97, 47, 120, 47, 121>>)}

\* --label values of issue list
Filters == {<<>>, <<s_BUG>>, <<s_zz, s_UI>>, <<s_b1, s_bug>>}

\* --open / --closed: clap rejects both together
StateFlags == {<<FALSE, FALSE>>, <<TRUE, FALSE>>, <<FALSE, TRUE>>}

\* issue list --all: --closed is tried without a label filter only, since the
\* state is passed to the server and read nowhere else
ListAllCmds ==
    {Cmd("list", j, TRUE, FALSE, f = <<>>, None, f, 0, <<>>, None, <<>>, <<>>) :
        j \in BOOLEAN, f \in {<<>>, <<s_zz, s_UI>>}}

ListRepoCmds ==
    {Cmd("list", j, FALSE, st[1], st[2], r, f, 0, <<>>, None, <<>>, <<>>) :
        j \in BOOLEAN, st \in StateFlags, r \in RepoArgs, f \in Filters}

ShowCmds ==
    {Cmd("show", j, FALSE, FALSE, FALSE, r, <<>>, 7, <<>>, None, <<>>, <<>>) :
        j \in BOOLEAN, r \in RepoArgs}

CreateCmds ==
    {Cmd("create", j, FALSE, FALSE, FALSE, r, ls, 0, s_T, b, <<>>, <<>>) :
        j \in BOOLEAN, r \in {None, Some(s_a_x)}, ls \in {<<>>, <<s_bug, s_UI>>},
        b \in {None, Some(s_hi), Some(s_empty), Some(s_sigA_hi)}}

CommentCmds ==
    {Cmd("comment", j, FALSE, FALSE, FALSE, r, <<>>, 7, <<>>, None, t, <<>>) :
        j \in BOOLEAN, r \in {None, Some(s_a_x)},
        t \in {s_hi, s_empty, s_sigA_hi}}

StateChangeCmds ==
    {Cmd(k, j, FALSE, FALSE, FALSE, r, <<>>, 7, <<>>, None, <<>>, <<>>) :
        k \in {"close", "reopen"}, j \in BOOLEAN, r \in {None, Some(s_a_x)}}

LabelCmds ==
    {Cmd(k, j, FALSE, FALSE, FALSE, r, <<>>, 7, <<>>, None, <<>>, n) :
        k \in {"label", "unlabel"}, j \in BOOLEAN, r \in {None, Some(s_a_x)},
        n \in {s_bug, s_BUG, s_UI, s_zz}}

RepoListCmds ==
    {Cmd("repo_list", j, FALSE, FALSE, FALSE, None, <<>>, 0, <<>>, None, <<>>,
         <<>>) : j \in BOOLEAN}

Commands ==
    ListAllCmds \cup ListRepoCmds \cup ShowCmds \cup CreateCmds \cup
    CommentCmds \cup StateChangeCmds \cup LabelCmds \cup RepoListCmds

\* the commands that read the profile's signature
Signing == {"create", "comment"}

\* a command line and the config file it runs against; a config that differs
\* only in a field the command never reads is left out
Invocations ==
    {inv \in Commands \X Configs :
        /\ inv[1].kind \notin Signing => inv[2].signature = s_empty
        /\ inv[1].kind = "repo_list" \/ inv[1].all =>
               inv[2].default_repo = None}

\* issue::handle: closed => "closed", open => "open", else "open"
state_of(c) == IF c.closed THEN "closed" ELSE "open"

\* the first await of the handler issue::handle / repo::handle routes to
handler_of(c) ==
    CASE c.kind = "list" /\ c.all -> "list_all"
      [] c.kind = "list" /\ ~c.all -> "list_repo"
      [] c.kind = "show" -> "show"
      [] c.kind = "create" -> "create"
      [] c.kind = "comment" -> "comment"
      [] c.kind \in {"close", "reopen"} -> "state_change"
      [] c.kind = "label" -> "add_label"
      [] c.kind = "unlabel" -> "remove_label"
      [] c.kind = "repo_list" -> "repo_list"

\* the commands that resolve a target repository with config.get_repo
takes_repo(c) == c.kind # "repo_list" /\ ~(c.kind = "list" /\ c.all)

-----------------------------------------------------------------------------
(* The run *)

Init ==
    /\ pc = "start"
    /\ cmd = NoCmd
    /\ config = NoConfig
    /\ profile = <<>>
    /\ target = <<>>
    /\ requests = <<>>
    /\ stdout = <<>>
    /\ stderr = <<>>
    /\ result = None
    /\ exit = None
    /\ repos = <<>>
    /\ tasks = <<>>
    /\ next_handle = 0
    /\ all_issues = <<>>
    /\ issues = <<>>
    /\ repo_labels = <<>>
    /\ label = None

\* one entry of the transport's log: the request and whether it succeeded
Sent(req, res) == [req |-> req, ok |-> res.ok]

\* main: run(cli) returns res; print the error, choose the exit code
Return(res, errs) ==
    /\ pc' = "done"
    /\ result' = Some(res)
    /\ exit' = Some(main_exit_code(res))
    /\ stderr' = IF res.ok THEN errs
                 ELSE Append(errs, [t |-> "error", err |-> res.err])

\* print!("{}", output); Ok(())
PrintAndReturn(output, errs) ==
    /\ stdout' = Append(stdout, output)
    /\ Return(Ok(<<>>), errs)

\* main up to the handler's first await: Config::load, get_profile, and in
\* issue::handle the state choice and config.get_repo
Start(c, cfg) ==
    LET prof == load_profile(cfg)
        t == get_repo(cfg, c.repo)
    IN  /\ cmd' = c
        /\ config' = cfg
        /\ IF ~prof.ok
           THEN Return(prof, stderr) /\ UNCHANGED <<profile, target>>
           ELSE IF takes_repo(c) /\ ~t.ok
           THEN Return(t, stderr) /\ profile' = prof.v /\ UNCHANGED target
           ELSE /\ profile' = prof.v
                /\ target' = IF takes_repo(c) THEN t.v ELSE target
                /\ pc' = handler_of(c)
                /\ UNCHANGED <<result, exit, stderr>>

\* Cli::parse, commands::dispatch, issue::handle up to the handler's first await
dispatch ==
    /\ pc = "start"
    /\ \E inv \in Invocations : Start(inv[1], inv[2])
    /\ UNCHANGED <<requests, stdout, repos, tasks, next_handle, all_issues,
                   issues, repo_labels, label>>

-----------------------------------------------------------------------------
(* issue list --all: handle_list_all *)

\* faulty variant: a failed enumeration counts as no repositories
enumerate_or_default(reply, data) ==
    IF json(reply, data).ok THEN json(reply, data) ELSE Ok(<<>>)

\* client.list_user_repos().await
list_user_repos(reply, data) == json(reply, data)

\* faulty variant: no task is spawned for the last repository
spawn_all_but_last(rs) ==
    [i \in 1..(Len(rs) - 1) |->
        [state |-> "spawned", panicked |-> FALSE, result |-> Ok(<<>>)]]

\* tokio::spawn for every repository, collected into handles
spawn_all(rs) ==
    [i \in 1..Len(rs) |->
        [state |-> "spawned", panicked |-> FALSE, result |-> Ok(<<>>)]]

\* faulty variant: a failed fetch is pushed as an empty list, without a warning
collect_pushes_failures(all, errs, full_name, task, labels) ==
    IF task.panicked
    THEN [all |-> all, errs |-> Append(errs, [t |-> "task_failed"])]
    ELSE IF task.result.ok
    THEN [all |-> Append(all, <<full_name, filter_by_labels(task.result.v, labels)>>),
          errs |-> errs]
    ELSE [all |-> Append(all, <<full_name, <<>>>>), errs |-> errs]

\* faulty variant: a repository whose filtered list is empty is not pushed
collect_drops_empty(all, errs, full_name, task, labels) ==
    IF task.panicked
    THEN [all |-> all, errs |-> Append(errs, [t |-> "task_failed"])]
    ELSE IF task.result.ok
    THEN [all |-> IF filter_by_labels(task.result.v, labels) = <<>> THEN all
                  ELSE Append(all, <<full_name,
                                     filter_by_labels(task.result.v, labels)>>),
          errs |-> errs]
    ELSE [all |-> all,
          errs |-> Append(errs, [t |-> "list_failed", repo |-> full_name,
                                 err |-> task.result.err])]


\* the three arms of match handle.await: push the filtered issues, or warn
collect(all, errs, full_name, task, labels) ==
    IF task.panicked
    THEN [all |-> all, errs |-> Append(errs, [t |-> "task_failed"])]
    ELSE IF task.result.ok
    THEN [all |-> Append(all, <<full_name, filter_by_labels(task.result.v, labels)>>),
          errs |-> errs]
    ELSE [all |-> all,
          errs |-> Append(errs, [t |-> "list_failed", repo |-> full_name,
                                 err |-> task.result.err])]

\* faulty variant: the loop breaks at the first failed handle
loop_ends_fail_fast(i, handles) ==
    i = Len(handles) \/ handles[i].panicked \/ ~handles[i].result.ok

\* for handle in handles: the loop ends after the last handle
loop_ends(i, handles) == i = Len(handles)

\* faulty variant: the warnings are printed on the primary output as well
RenderAll_echoes_warnings(all, errs) ==
    /\ all_issues' = sort_by_repo_name(all)
    /\ stdout' = stdout \o errs \o
                 <<format_issue_list(sort_by_repo_name(all), cmd.json)>>
    /\ Return(Ok(<<>>), errs)

\* all_issues.sort_by(..); print!(format_issue_list(all_issues, format)); Ok(())
RenderAll(all, errs) ==
    /\ all_issues' = sort_by_repo_name(all)
    /\ PrintAndReturn(format_issue_list(sort_by_repo_name(all), cmd.json), errs)

\* the enumeration, then the spawn of one task per repository
list_all_enumerate ==
    /\ pc = "list_all"
    /\ \E reply \in Replies, data \in RepoLists :
         LET r == list_user_repos(reply, data)
         IN  /\ requests' = Append(requests, Sent(req_list_user_repos, json(reply, data)))
             /\ IF ~r.ok
                THEN /\ Return(r, stderr)
                     /\ UNCHANGED <<stdout, repos, tasks, next_handle, all_issues>>
                ELSE /\ repos' = r.v
                     /\ tasks' = spawn_all(r.v)
                     /\ IF r.v = <<>>
                        THEN RenderAll(<<>>, stderr) /\ UNCHANGED next_handle
                        ELSE /\ next_handle' = 1
                             /\ pc' = "join"
                             /\ UNCHANGED <<stdout, stderr, result, exit, all_issues>>
    /\ UNCHANGED <<cmd, config, profile, target, issues, repo_labels, label>>

\* faulty variant: the fetches run one after another, each task waiting for
\* the task spawned before it
task_run_after_previous(i) ==
    /\ pc = "join"
    /\ tasks[i].state = "spawned"
    /\ i = 1 \/ tasks[i - 1].state # "spawned"
    /\ \E reply \in Replies, data \in IssueLists :
         LET r == json(reply, data)
         IN  /\ tasks' = [tasks EXCEPT ![i] =
                    [state |-> "finished", panicked |-> FALSE, result |-> r]]
             /\ requests' = Append(requests,
                    Sent(req_list_issues(repos[i].owner, repos[i].name,
                                         state_of(cmd)), r))
    /\ UNCHANGED <<pc, cmd, config, profile, target, stdout, stderr, result, exit,
                   repos, next_handle, all_issues, issues, repo_labels, label>>

\* the body of the spawned task: one list_issues call, awaited
task_run(i) ==
    /\ pc = "join"
    /\ tasks[i].state = "spawned"
    /\ \E reply \in Replies, data \in IssueLists :
         LET r == json(reply, data)
         IN  /\ tasks' = [tasks EXCEPT ![i] =
                    [state |-> "finished", panicked |-> FALSE, result |-> r]]
             /\ requests' = Append(requests,
                    Sent(req_list_issues(repos[i].owner, repos[i].name,
                                         state_of(cmd)), r))
    /\ UNCHANGED <<pc, cmd, config, profile, target, stdout, stderr, result, exit,
                   repos, next_handle, all_issues, issues, repo_labels, label>>

\* the spawned task panics while it awaits its response: a JoinError
task_panic(i) ==
    /\ pc = "join"
    /\ tasks[i].state = "spawned"
    /\ tasks' = [tasks EXCEPT ![i] =
           [state |-> "finished", panicked |-> TRUE,
            result |-> Err(Error("panic", <<>>))]]
    /\ requests' = Append(requests,
           Sent(req_list_issues(repos[i].owner, repos[i].name, state_of(cmd)),
                Err(Error("panic", <<>>))))
    /\ UNCHANGED <<pc, cmd, config, profile, target, stdout, stderr, result, exit,
                   repos, next_handle, all_issues, issues, repo_labels, label>>

\* handle.await returns for the next handle; after the last one, sort and print
list_all_join ==
    /\ pc = "join"
    /\ tasks[next_handle].state = "finished"
    /\ LET i == next_handle
           c == collect(all_issues, stderr, repos[i].full_name, tasks[i],
                        cmd.labels)
       IN  /\ tasks' = [tasks EXCEPT ![i].state = "joined"]
           /\ IF loop_ends(i, tasks)
              THEN RenderAll(c.all, c.errs) /\ UNCHANGED next_handle
              ELSE /\ next_handle' = i + 1
                   /\ all_issues' = c.all
                   /\ stderr' = c.errs
                   /\ UNCHANGED <<pc, stdout, result, exit>>
    /\ UNCHANGED <<cmd, config, profile, target, requests, repos, issues,
                   repo_labels, label>>

-----------------------------------------------------------------------------
(* The single-repository handlers *)

\* faulty variant: the owner is left out of the repository's name
repo_name_only(owner, repo) == repo

\* let repo_name = format!("{}/{}", owner, repo)
repo_name_of(owner, repo) == owner \o <<47>> \o repo

\* handle_list_repo
handle_list_repo ==
    /\ pc = "list_repo"
    /\ \E reply \in Replies, data \in IssueLists :
         LET r == json(reply, data)
             repo_name == repo_name_of(target[1], target[2])
             kept == filter_by_labels(r.v, cmd.labels)
         IN  /\ requests' = Append(requests,
                    Sent(req_list_issues(target[1], target[2], state_of(cmd)), r))
             /\ IF ~r.ok
                THEN Return(r, stderr) /\ UNCHANGED <<stdout, issues, all_issues>>
                ELSE /\ issues' = r.v
                     /\ all_issues' = <<<<repo_name, kept>>>>
                     /\ PrintAndReturn(
                            format_issue_list(<<<<repo_name, kept>>>>, cmd.json),
                            stderr)
    /\ UNCHANGED <<cmd, config, profile, target, repos, tasks, next_handle,
                   repo_labels, label>>

\* handle_show: client.get_issue
handle_show_issue ==
    /\ pc = "show"
    /\ \E reply \in Replies :
         LET r == json(reply, <<>>)
         IN  /\ requests' = Append(requests,
                    Sent(req_get_issue(target[1], target[2], cmd.number), r))
             /\ IF ~r.ok THEN Return(r, stderr)
                ELSE pc' = "show_comments" /\ UNCHANGED <<result, exit, stderr>>
    /\ UNCHANGED <<cmd, config, profile, target, stdout, repos, tasks, next_handle,
                   all_issues, issues, repo_labels, label>>

\* handle_show: client.list_comments, then print
handle_show_comments ==
    /\ pc = "show_comments"
    /\ \E reply \in Replies :
         LET r == json(reply, <<>>)
         IN  /\ requests' = Append(requests,
                    Sent(req_list_comments(target[1], target[2], cmd.number), r))
             /\ IF ~r.ok THEN Return(r, stderr) /\ UNCHANGED stdout
                ELSE PrintAndReturn(format_other("issue_detail", cmd.json), stderr)
    /\ UNCHANGED <<cmd, config, profile, target, repos, tasks, next_handle,
                   all_issues, issues, repo_labels, label>>

\* handle_create
handle_create ==
    /\ pc = "create"
    /\ \E reply \in Replies :
         LET body_signed == body_with_sig(profile, cmd.body)
             r == json(reply, <<>>)
         IN  /\ requests' = Append(requests,
                    Sent(req_create_issue(target[1], target[2], cmd.title,
                                          Some(body_signed), cmd.labels), r))
             /\ IF ~r.ok THEN Return(r, stderr) /\ UNCHANGED stdout
                ELSE PrintAndReturn(format_other("created_issue", cmd.json), stderr)
    /\ UNCHANGED <<cmd, config, profile, target, repos, tasks, next_handle,
                   all_issues, issues, repo_labels, label>>

\* handle_comment
handle_comment ==
    /\ pc = "comment"
    /\ \E reply \in Replies :
         LET r == json(reply, <<>>)
         IN  /\ requests' = Append(requests,
                    Sent(req_create_comment(target[1], target[2], cmd.number,
                                            comment_with_sig(profile, cmd.text)), r))
             /\ IF ~r.ok THEN Return(r, stderr) /\ UNCHANGED stdout
                ELSE PrintAndReturn(format_other("created_comment", cmd.json), stderr)
    /\ UNCHANGED <<cmd, config, profile, target, repos, tasks, next_handle,
                   all_issues, issues, repo_labels, label>>

\* handle_state_change, for close ("closed") and reopen ("open")
handle_state_change ==
    /\ pc = "state_change"
    /\ \E reply \in Replies :
         LET state == IF cmd.kind = "close" THEN "closed" ELSE "open"
             r == json(reply, <<>>)
         IN  /\ requests' = Append(requests,
                    Sent(req_update_issue(target[1], target[2], cmd.number,
                                          Some(state)), r))
             /\ IF ~r.ok THEN Return(r, stderr) /\ UNCHANGED stdout
                ELSE PrintAndReturn(format_other("issue_updated", cmd.json), stderr)
    /\ UNCHANGED <<cmd, config, profile, target, repos, tasks, next_handle,
                   all_issues, issues, repo_labels, label>>

\* the label-set fetch and the resolution shared by label and unlabel
FetchAndResolve(next) ==
    \E reply \in Replies, data \in RepoLabelSets :
        LET r == json(reply, data)
            l == IF r.ok THEN resolve_label(r.v, cmd.label) ELSE r
        IN  /\ requests' = Append(requests,
                   Sent(req_list_repo_labels(target[1], target[2]), r))
            /\ repo_labels' = IF r.ok THEN r.v ELSE repo_labels
            /\ IF ~l.ok THEN Return(l, stderr) /\ UNCHANGED label
               ELSE /\ label' = Some(l.v)
                    /\ pc' = next
                    /\ UNCHANGED <<result, exit, stderr>>

\* handle_add_label: list_repo_labels and find
handle_add_label_fetch ==
    /\ pc = "add_label"
    /\ FetchAndResolve("add_label_post")
    /\ UNCHANGED <<cmd, config, profile, target, stdout, repos, tasks, next_handle,
                   all_issues, issues>>

\* handle_add_label: add_labels_to_issue, then print
handle_add_label_post ==
    /\ pc = "add_label_post"
    /\ \E reply \in Replies :
         LET r == json(reply, <<>>)
         IN  /\ requests' = Append(requests,
                    Sent(req_add_labels_to_issue(target[1], target[2],
                                                 cmd.number, <<label.v.id>>), r))
             /\ IF ~r.ok THEN Return(r, stderr) /\ UNCHANGED stdout
                ELSE PrintAndReturn(format_other("label_added", cmd.json), stderr)
    /\ UNCHANGED <<cmd, config, profile, target, repos, tasks, next_handle,
                   all_issues, issues, repo_labels, label>>

\* handle_remove_label: list_repo_labels and find
handle_remove_label_fetch ==
    /\ pc = "remove_label"
    /\ FetchAndResolve("remove_label_delete")
    /\ UNCHANGED <<cmd, config, profile, target, stdout, repos, tasks, next_handle,
                   all_issues, issues>>

\* handle_remove_label: remove_label_from_issue, then print
handle_remove_label_delete ==
    /\ pc = "remove_label_delete"
    /\ \E reply \in Replies :
         LET r == request(reply)
         IN  /\ requests' = Append(requests,
                    Sent(req_remove_label_from_issue(target[1], target[2],
                                                     cmd.number, label.v.id), r))
             /\ IF ~r.ok THEN Return(r, stderr) /\ UNCHANGED stdout
                ELSE PrintAndReturn(format_other("label_removed", cmd.json), stderr)
    /\ UNCHANGED <<cmd, config, profile, target, repos, tasks, next_handle,
                   all_issues, issues, repo_labels, label>>

\* repo::handle_list
repo_handle_list ==
    /\ pc = "repo_list"
    /\ \E reply \in Replies, data \in RepoLists :
         LET r == json(reply, data)
         IN  /\ requests' = Append(requests, Sent(req_list_user_repos, r))
             /\ IF ~r.ok THEN Return(r, stderr) /\ UNCHANGED <<stdout, repos>>
                ELSE /\ repos' = r.v
                     /\ PrintAndReturn(format_other("repo_list", cmd.json), stderr)
    /\ UNCHANGED <<cmd, config, profile, target, tasks, next_handle, all_issues,
                   issues, repo_labels, label>>

-----------------------------------------------------------------------------

Next ==
    \/ dispatch
    \/ list_all_enumerate
    \/ \E i \in 1..Len(tasks) : task_run(i)
    \/ \E i \in 1..Len(tasks) : task_panic(i)
    \/ list_all_join
    \/ handle_list_repo
    \/ handle_show_issue
    \/ handle_show_comments
    \/ handle_create
    \/ handle_comment
    \/ handle_state_change
    \/ handle_add_label_fetch
    \/ handle_add_label_post
    \/ handle_remove_label_fetch
    \/ handle_remove_label_delete
    \/ repo_handle_list

Spec == Init /\ [][Next]_vars

-----------------------------------------------------------------------------
(* Vocabulary of the properties *)

Done == pc = "done"
Running(kind) == cmd.kind = kind /\ Len(requests) >= 1
ListAll == cmd.kind = "list" /\ cmd.all /\ Len(requests) >= 1
ListRepo == cmd.kind = "list" /\ ~cmd.all /\ Len(requests) >= 1
Rendered == stdout # <<>>

\* lexicographic order on byte strings, by first elements
RECURSIVE LexLeq(_, _)
LexLeq(a, b) ==
    \/ a = <<>>
    \/ /\ b # <<>>
       /\ \/ Head(a) < Head(b)
          \/ Head(a) = Head(b) /\ LexLeq(Tail(a), Tail(b))

\* equality of two names up to the case of ASCII letters
CaseFold(c) == IF c >= 97 /\ c <= 122 THEN c - 32 ELSE c
SameIgnoringCase(a, b) ==
    Len(a) = Len(b) /\ \A k \in 1..Len(a) : CaseFold(a[k]) = CaseFold(b[k])

\* the issue carries a label that some term of the filter names
Wanted(issue, F) ==
    \E k \in 1..Len(issue.labels), m \in 1..Len(F) :
        SameIgnoringCase(issue.labels[k].name, F[m])

\* kept is the list I cut down to its wanted issues, order preserved
IsKeptOf(kept, I, F) ==
    LET P == {k \in 1..Len(I) : F = <<>> \/ Wanted(I[k], F)}
        nth(j) == CHOOSE k \in P : Cardinality({x \in P : x <= k}) = j
    IN  /\ Len(kept) = Cardinality(P)
        /\ \A j \in 1..Len(kept) : kept[j] = I[nth(j)]

TaskFailed(i) == tasks[i].panicked \/ ~tasks[i].result.ok
Joined(i) == tasks[i].state = "joined"
PairsOf(name) == {k \in 1..Len(all_issues) : all_issues[k][1] = name}
WarningsFor(name) ==
    {k \in 1..Len(stderr) : stderr[k].t = "list_failed" /\ stderr[k].repo = name}
TaskWarnings == {k \in 1..Len(stderr) : stderr[k].t = "task_failed"}
\* the k-th task to complete is the task of repos[i]
CompletedAt(k, i) ==
    /\ Len(requests) >= k + 1
    /\ requests[k + 1].req.owner = repos[i].owner
    /\ requests[k + 1].req.repo = repos[i].name

-----------------------------------------------------------------------------
(* Properties *)

\* C1: in issue list --all the pairs handed to the renderer are in ascending
\* lexicographic order of repository full name, and they are exactly the
\* successful repositories' filtered lists, whatever order the tasks completed
\* in: the output is a function of the repositories and their outcomes.
C1_SortedByFullName ==
    ListAll /\ Rendered =>
        /\ \A k \in 1..(Len(all_issues) - 1) :
               LexLeq(all_issues[k][1], all_issues[k + 1][1])
        /\ Len(all_issues) = Cardinality({i \in 1..Len(tasks) : ~TaskFailed(i)})
        /\ \A i \in 1..Len(tasks) :
               ~TaskFailed(i) =>
                   \E k \in 1..Len(all_issues) :
                       /\ all_issues[k][1] = repos[i].full_name
                       /\ IsKeptOf(all_issues[k][2], tasks[i].result.v, cmd.labels)
        /\ stdout = <<format_issue_list(all_issues, cmd.json)>>

\* two repositories enumerated in descending order, the second completing first,
\* both rendered
C1_Witness ==
    /\ ListAll /\ Rendered
    /\ Len(all_issues) >= 2
    /\ ~LexLeq(repos[1].full_name, repos[2].full_name)
    /\ CompletedAt(1, 2)

\* C2: a repository whose task failed (request error, decode error, join
\* failure) has no entry in the aggregation result and exactly one warning, and
\* nothing rendered names it.
C2_FailedRepoOnlyWarns ==
    ListAll =>
        /\ \A i \in 1..Len(tasks) :
               Joined(i) /\ TaskFailed(i) =>
                   /\ PairsOf(repos[i].full_name) = {}
                   /\ ~tasks[i].panicked =>
                          Cardinality(WarningsFor(repos[i].full_name)) = 1
                   /\ \A w \in 1..Len(stdout) : \A k \in 1..Len(stdout[w].out) :
                          stdout[w].out[k].t \in {"json_issue", "header"} =>
                              stdout[w].out[k].repo # repos[i].full_name
        /\ Cardinality(TaskWarnings) =
               Cardinality({i \in 1..Len(tasks) : Joined(i) /\ tasks[i].panicked})
        /\ Cardinality({k \in 1..Len(stderr) : stderr[k].t = "list_failed"}) =
               Cardinality({i \in 1..Len(tasks) :
                               Joined(i) /\ TaskFailed(i) /\ ~tasks[i].panicked})

\* JSON output rendered with one repository failed and another one listed
C2_Witness ==
    /\ ListAll /\ Rendered /\ cmd.json
    /\ \E i, j \in 1..Len(tasks) :
           /\ TaskFailed(i) /\ ~tasks[i].panicked
           /\ ~TaskFailed(j)
           /\ \E k \in 1..Len(stdout[1].out) :
                  stdout[1].out[k].repo = repos[j].full_name

\* C3: issue list --all returns an error exactly when the enumeration failed;
\* then no task was started and nothing was rendered; when the enumeration
\* succeeded the command succeeds and renders once, whichever tasks failed.
C3_FailsOnlyOnEnumeration ==
    ListAll =>
        /\ ~requests[1].ok =>
               /\ Done /\ ~result.v.ok
               /\ tasks = <<>> /\ Len(requests) = 1 /\ stdout = <<>>
        /\ requests[1].ok /\ Done =>
               /\ result.v.ok /\ exit.v = 0
               /\ Len(stdout) = 1
               /\ \A i \in 1..Len(tasks) : Joined(i)

\* the command succeeded although every one of two or more repositories failed
C3_Witness ==
    /\ ListAll /\ Done /\ result.v.ok /\ Len(stdout) = 1
    /\ Len(tasks) >= 2
    /\ \A i \in 1..Len(tasks) : TaskFailed(i)

\* C4: the result is rendered only after every spawned task has been joined,
\* and every task's outcome is accounted for whatever the other tasks did: an
\* entry for each success, a warning for each failure.
C4_WaitForAll ==
    ListAll /\ Rendered =>
        /\ \A i \in 1..Len(tasks) : Joined(i)
        /\ Len(tasks) = Len(repos)
        /\ \A i \in 1..Len(tasks) :
               ~TaskFailed(i) => Cardinality(PairsOf(repos[i].full_name)) = 1
        /\ Len(stderr) = Cardinality({i \in 1..Len(tasks) : TaskFailed(i)})

\* the first task joined had failed and a later one is in the result
C4_Witness ==
    /\ ListAll /\ Rendered
    /\ Len(tasks) >= 2
    /\ TaskFailed(1)
    /\ \E i \in 2..Len(tasks) :
           ~TaskFailed(i) /\ PairsOf(repos[i].full_name) # {}

\* C5: the issues kept by the label filter are exactly the fetched issues that
\* carry a label equal, ignoring (ASCII) case, to a term of the filter, in their
\* original order; an empty filter keeps the list unchanged.  In both list modes.
C5_LabelFilter ==
    /\ ListRepo /\ Rendered =>
           /\ Len(all_issues) = 1
           /\ IsKeptOf(all_issues[1][2], issues, cmd.labels)
           /\ cmd.labels = <<>> => all_issues[1][2] = issues
    /\ ListAll =>
           \A i \in 1..Len(tasks) :
               Joined(i) /\ ~TaskFailed(i) =>
                   \A k \in PairsOf(repos[i].full_name) :
                       /\ IsKeptOf(all_issues[k][2], tasks[i].result.v, cmd.labels)
                       /\ cmd.labels = <<>> =>
                              all_issues[k][2] = tasks[i].result.v

\* a two-term filter that keeps two of three issues, one by a label that
\* differs in case from the term
C5_Witness ==
    /\ ListRepo /\ Rendered
    /\ Len(cmd.labels) = 2
    /\ Len(issues) = 3
    /\ Len(all_issues[1][2]) = 2
    /\ \E k \in 1..2 : \A m \in 1..Len(all_issues[1][2][k].labels) :
           all_issues[1][2][k].labels[m].name \notin {cmd.labels[1], cmd.labels[2]}

LabelRun == cmd.kind \in {"label", "unlabel"} /\ Len(requests) >= 1
NoMatch ==
    \A k \in 1..Len(repo_labels) :
        ~SameIgnoringCase(repo_labels[k].name, cmd.label)
Matching == {k \in 1..Len(repo_labels) :
                SameIgnoringCase(repo_labels[k].name, cmd.label)}
\* the label id carried by the add-labels POST or the remove-label DELETE
SentIds(r) == IF r.method = "POST" THEN r.body.v.labels ELSE r.arg

\* C6: label and unlabel fetch the label set first; when no label of the
\* repository matches the requested name the command fails with the not-found
\* error naming that label, and no add-labels POST or remove-label DELETE is sent.
C6_NoMutationWhenLabelUnknown ==
    LabelRun =>
        /\ requests[1].req.method = "GET" /\ requests[1].req.ep = "labels"
        /\ \A k \in 1..Len(requests) :
               requests[k].req.method # "GET" => k = 2 /\ requests[1].ok
        /\ requests[1].ok /\ NoMatch =>
               /\ Done /\ ~result.v.ok /\ exit.v # 0
               /\ result.v.err = Error("label_not_found", cmd.label)
               /\ stderr = <<[t |-> "error", err |-> result.v.err]>>
               /\ Len(requests) = 1
               /\ stdout = <<>>

\* a fetched, non-empty label set without the requested name
C6_Witness ==
    /\ LabelRun /\ Done
    /\ cmd.kind = "unlabel"
    /\ requests[1].ok /\ repo_labels # <<>> /\ NoMatch

\* C7: when some fetched label equals the requested name ignoring case, the
\* resolution succeeds and the id sent in the mutating request is the id of such
\* a label.
C7_ResolutionCaseInsensitive ==
    LabelRun /\ requests[1].ok /\ ~NoMatch =>
        /\ label.some
        /\ \E k \in Matching : repo_labels[k] = label.v
        /\ Done => Len(requests) = 2 /\ result.v.err.kind # "label_not_found"
        /\ Len(requests) >= 2 =>
               /\ requests[2].req.ep =
                      (IF cmd.kind = "label" THEN "issue_labels" ELSE "issue_label")
               /\ \E k \in Matching :
                      SentIds(requests[2].req) = <<repo_labels[k].id>>

\* the mutating request was sent for a name that no label spells the same way
C7_Witness ==
    /\ LabelRun /\ Len(requests) = 2
    /\ \A k \in 1..Len(repo_labels) : repo_labels[k].name # cmd.label
    /\ Cardinality(Matching) = 2
    /\ SentIds(requests[2].req) = <<label.v.id>>

\* the text with the signature and one space put in front of it
Signed(sig, text) ==
    [k \in 1..(Len(sig) + 1 + Len(text)) |->
        IF k <= Len(sig) THEN sig[k]
        ELSE IF k = Len(sig) + 1 THEN 32
        ELSE text[k - Len(sig) - 1]]

\* C8: the submitted body is the signature alone when no body was given and
\* signature, space, body otherwise; the augmentation is not idempotent: applied
\* to its own output it puts the signature in front a second time.
C8_SignatureAugmentation ==
    /\ Running("create") =>
           LET sent == requests[1].req.body.v.body
               twice == body_with_sig(profile, Some(sent))
           IN  /\ cmd.body.some => sent = Signed(profile, cmd.body.v)
               /\ ~cmd.body.some => sent = profile
               /\ twice = Signed(profile, sent)
               /\ twice # sent
    /\ Running("comment") =>
           LET sent == requests[1].req.body.v.body
           IN  /\ sent = Signed(profile, cmd.text)
               /\ comment_with_sig(profile, sent) # sent

\* a body that was already signed is signed again
C8_Witness ==
    /\ Running("create")
    /\ profile = s_sigA /\ cmd.body = Some(s_sigA_hi)
    /\ requests[1].req.body.v.body = s_sigA \o <<32>> \o s_sigA \o <<32>> \o s_hi

\* the errors dispatch returns before the handler runs
DispatchErrors == {"config", "profile", "repo_unspecified", "repo_format"}
HandlerRan == Done /\ (result.v.ok \/ result.v.err.kind \notin DispatchErrors)

\* C9: a create or comment run sends exactly one request, whose body carries
\* the signature once and whose title and labels are the user's; no request of
\* any other command has a body field.
C9_SignedOnceBodyOnly ==
    /\ cmd.kind = "create" =>
           /\ Len(requests) <= 1
           /\ HandlerRan => Len(requests) = 1
           /\ Len(requests) = 1 =>
                  LET r == requests[1].req
                  IN  /\ r.method = "POST" /\ r.ep = "issues"
                      /\ r.body.v.title = cmd.title
                      /\ r.body.v.body =
                             (IF cmd.body.some THEN Signed(profile, cmd.body.v)
                              ELSE profile)
                      /\ IF cmd.labels = <<>>
                         THEN DOMAIN r.body.v = {"title", "body"}
                         ELSE /\ DOMAIN r.body.v = {"title", "body", "labels"}
                              /\ r.body.v.labels = cmd.labels
    /\ cmd.kind = "comment" =>
           /\ Len(requests) <= 1
           /\ HandlerRan => Len(requests) = 1
           /\ Len(requests) = 1 =>
                  LET r == requests[1].req
                  IN  /\ r.method = "POST" /\ r.ep = "comments"
                      /\ DOMAIN r.body.v = {"body"}
                      /\ r.body.v.body = Signed(profile, cmd.text)
    /\ cmd.kind \notin {"create", "comment"} =>
           \A k \in 1..Len(requests) :
               requests[k].req.body.some =>
                   "body" \notin DOMAIN requests[k].req.body.v

\* an issue created with a body and labels under a non-empty signature
C9_Witness ==
    /\ cmd.kind = "create" /\ Done /\ result.v.ok
    /\ cmd.labels # <<>> /\ cmd.body.some /\ cmd.body.v # <<>>
    /\ profile = s_sigA
    /\ Len(requests) = 1

\* the not-found class: a 404 response, or a label name no label matches
NotFoundClass(err) == err.kind \in {"not_found", "label_not_found"}

\* C10: the exit code is 0 on success, 2 for a not-found class error and 1 for
\* every other failure.
C10_ExitCodes ==
    Done =>
        exit.v = (IF result.v.ok THEN 0
                  ELSE IF NotFoundClass(result.v.err) THEN 2
                  ELSE 1)

\* the lines of everything written to the primary output
Lines == IF stdout = <<>> THEN <<>> ELSE stdout[1].out
\* the lines of the primary output that name the repository
LinesNaming(name) ==
    {k \in 1..Len(Lines) :
        Lines[k].t \in {"json_issue", "header"} /\ Lines[k].repo = name}
\* the fetch of repos[i] succeeded and no fetched issue passes the filter
EmptyAfterFilter(i) ==
    /\ ~TaskFailed(i)
    /\ \A k \in 1..Len(tasks[i].result.v) :
           cmd.labels # <<>> /\ ~Wanted(tasks[i].result.v[k], cmd.labels)

\* C11 as stated: in issue list --all no repository whose issue list is empty
\* after filtering is in the aggregation result handed to the renderer.
C11_EmptyReposAbsent ==
    ListAll /\ Rendered =>
        \A i \in 1..Len(tasks) :
            EmptyAfterFilter(i) => PairsOf(repos[i].full_name) = {}

\* C11, amended: a repository whose issue list is empty after filtering stays
\* in the aggregation result handed to the renderer, as a pair with an empty
\* list, and the rendering leaves it out: no header and no element names it.
C11_EmptyReposNotRendered ==
    ListAll /\ Rendered =>
        \A i \in 1..Len(tasks) :
            EmptyAfterFilter(i) =>
                /\ \E k \in PairsOf(repos[i].full_name) : all_issues[k][2] = <<>>
                /\ LinesNaming(repos[i].full_name) = {}

\* a repository whose fetched issues were all filtered out, rendered next to a
\* repository that kept some
C11_Witness ==
    /\ ListAll /\ Rendered
    /\ \E i, j \in 1..Len(tasks) :
           /\ EmptyAfterFilter(i) /\ tasks[i].result.v # <<>>
           /\ LinesNaming(repos[j].full_name) # {}

\* the place of the repository with this full name in the enumeration
RepoIndex(name) == CHOOSE i \in 1..Len(repos) : repos[i].full_name = name

\* C12 as stated: in issue list --all the aggregation result lists the
\* repositories in the order the enumerator returned them.
C12_EnumerationOrder ==
    ListAll /\ Rendered =>
        \A k, l \in 1..Len(all_issues) :
            k < l => RepoIndex(all_issues[k][1]) < RepoIndex(all_issues[l][1])

\* C12, amended: the aggregation result lists the repositories in strictly
\* ascending byte order of full name; neither the order the enumerator returned
\* them in nor the order their tasks completed in decides a position.
C12_FullNameOrder ==
    ListAll /\ Rendered =>
        \A k, l \in 1..Len(all_issues) :
            k < l <=> /\ all_issues[k][1] # all_issues[l][1]
                      /\ LexLeq(all_issues[k][1], all_issues[l][1])

\* two repositories enumerated in descending order of name and completed in
\* that order too, both in the result; the names differ in the case of their
\* first letter
C12_Witness ==
    /\ ListAll /\ Rendered
    /\ Len(repos) >= 2 /\ Len(all_issues) >= 2
    /\ CompletedAt(1, 1) /\ CompletedAt(2, 2)
    /\ ~LexLeq(repos[1].full_name, repos[2].full_name)
    /\ repos[2].full_name[1] < 97

-----------------------------------------------------------------------------
(* Two runs against the same server: issue list --all, then issue list --repo *)

\* after an issue list --all that found one repository and fetched its issues,
\* the command is started again as issue list --repo <that repository's full
\* name>, with the same flags and config; its output is appended to stdout
list_repo_again ==
    /\ pc = "done"
    /\ cmd.kind = "list" /\ cmd.all
    /\ Len(stdout) = 1 /\ Len(repos) = 1
    /\ ~TaskFailed(1)
    /\ Start([cmd EXCEPT !.all = FALSE, !.repo = Some(repos[1].full_name)],
             config)
    /\ UNCHANGED <<requests, stdout, repos, tasks, next_handle, all_issues,
                   issues, repo_labels, label>>

NextTwoRuns ==
    \/ dispatch
    \/ list_all_enumerate
    \/ \E i \in 1..Len(tasks) : task_run(i)
    \/ \E i \in 1..Len(tasks) : task_panic(i)
    \/ list_all_join
    \/ list_repo_again
    \/ handle_list_repo

SpecTwoRuns == Init /\ [][NextTwoRuns]_vars

\* the second run has printed, and its fetch returned what the first run's did
SameWorld ==
    /\ pc = "done" /\ Len(stdout) = 2
    /\ cmd.kind = "list" /\ ~cmd.all /\ Len(tasks) = 1
    /\ issues = tasks[1].result.v

\* C13: issue list --repo owner/name writes the same primary output as issue
\* list --all does when the enumerator returns exactly the repository whose
\* full name is owner/name and its fetch succeeds, for the same state, label
\* filter, output mode and fetched list; both send the same list request.
C13_ListRepoSameAsListAll ==
    SameWorld =>
        /\ stdout[2] = stdout[1]
        /\ requests[3].req = requests[2].req

\* both runs printed a repository whose three fetched issues a two-term filter
\* cut down to some
C13_Witness ==
    /\ SameWorld
    /\ Len(issues) = 3 /\ cmd.labels # <<>>
    /\ all_issues[1][2] # <<>> /\ Len(all_issues[1][2]) < 3

-----------------------------------------------------------------------------

\* the number of issues in an aggregation result
RECURSIVE TotalIssues(_)
TotalIssues(v) == IF v = <<>> THEN 0 ELSE Len(Head(v)[2]) + TotalIssues(Tail(v))
\* the entries of the aggregation result that have at least one issue
WithIssues == {k \in 1..Len(all_issues) : all_issues[k][2] # <<>>}
\* an issue list was rendered for people
HumanList == cmd.kind = "list" /\ Rendered /\ ~cmd.json
LinesOf(type) == {k \in 1..Len(Lines) : Lines[k].t = type}

\* C14: the human rendering of an issue list ends with the summary "Total: N
\* issue(s) across M repo(s)", N the number of issues in the result and M the
\* number of its repositories with at least one issue, and has one header per
\* such repository and none for any other; when N = 0 the whole output is the
\* line "No issues found." alone.
C14_HumanSummary ==
    HumanList =>
        /\ stdout[1].fmt = "human"
        /\ TotalIssues(all_issues) = 0 => Lines = <<[t |-> "no_issues"]>>
        /\ TotalIssues(all_issues) > 0 =>
               /\ Lines[Len(Lines)] =
                      [t |-> "total", total |-> TotalIssues(all_issues),
                       repos |-> Cardinality(WithIssues)]
               /\ LinesOf("total") = {Len(Lines)} /\ LinesOf("no_issues") = {}
               /\ Cardinality(LinesOf("issue")) = TotalIssues(all_issues)
               /\ Cardinality(LinesOf("header")) = Cardinality(WithIssues)
               /\ \A k \in 1..Len(all_issues) :
                      Cardinality({h \in LinesOf("header") :
                                      Lines[h].repo = all_issues[k][1]}) =
                          IF k \in WithIssues THEN 1 ELSE 0

\* a summary over two repositories of which one has no issue to show
C14_Witness ==
    /\ HumanList /\ cmd.all
    /\ Len(all_issues) = 2
    /\ Cardinality(WithIssues) = 1
    /\ Lines[Len(Lines)].t = "total"

-----------------------------------------------------------------------------

\* an issue list was rendered as JSON
JsonList == cmd.kind = "list" /\ Rendered /\ cmd.json
\* the number of issues in the entries before the r-th
IssuesBefore(r) == TotalIssues(SubSeq(all_issues, 1, r - 1))

\* C15: the JSON rendering of an aggregation result has exactly one element per
\* issue of the result, in result order (repositories in order, issues in order
\* within a repository), each element carrying the issue and, as repo, the full
\* name of the repository the issue was fetched from; a result without issues
\* renders as the empty array.
C15_JsonElements ==
    JsonList =>
        /\ stdout[1].fmt = "json"
        /\ Len(Lines) = TotalIssues(all_issues)
        /\ \A r \in 1..Len(all_issues) : \A j \in 1..Len(all_issues[r][2]) :
               /\ Lines[IssuesBefore(r) + j] =
                      [t |-> "json_issue", repo |-> all_issues[r][1],
                       issue |-> all_issues[r][2][j]]
               /\ cmd.all =>
                      \E i \in 1..Len(repos) :
                          /\ repos[i].full_name = all_issues[r][1]
                          /\ \E n \in 1..Len(tasks[i].result.v) :
                                 tasks[i].result.v[n] = all_issues[r][2][j]
        /\ TotalIssues(all_issues) = 0 => Lines = <<>>

\* a JSON array over two repositories that both have issues, enumerated in
\* descending order of name
C15_Witness ==
    /\ JsonList /\ cmd.all
    /\ Len(all_issues) = 2
    /\ Cardinality(WithIssues) = 2
    /\ ~LexLeq(repos[1].full_name, repos[2].full_name)
    /\ Len(Lines) >= 4

-----------------------------------------------------------------------------

\* the warnings on the error stream
Warnings ==
    {k \in 1..Len(stderr) : stderr[k].t \in {"task_failed", "list_failed"}}
\* the joined tasks that failed
JoinedFailures == {i \in 1..Len(tasks) : Joined(i) /\ TaskFailed(i)}

\* C16: in issue list --all every failure warning goes to the error stream and
\* nothing else does, short of the final error of a failed enumeration; the
\* primary output is written at most once, and exactly once when the run that
\* enumerated returns: the rendered result, which in --json mode is one array
\* of issue elements whichever repositories failed.
C16_WarningsOnErrorStream ==
    ListAll =>
        /\ Len(stdout) <= 1
        /\ requests[1].ok /\ Done => Len(stdout) = 1
        /\ Cardinality(Warnings) = Cardinality(JoinedFailures)
        /\ \A k \in 1..Len(stderr) :
               k \notin Warnings => stderr[k].t = "error" /\ ~requests[1].ok
        /\ \A w \in 1..Len(stdout) :
               /\ stdout[w].fmt = IF cmd.json THEN "json" ELSE "human"
               /\ cmd.json =>
                      \A k \in 1..Len(stdout[w].out) :
                          stdout[w].out[k].t = "json_issue"

\* a JSON array printed although one repository's request failed and the
\* other repository's task panicked
C16_Witness ==
    /\ ListAll /\ Done /\ cmd.json
    /\ Len(stdout) = 1 /\ Len(stderr) = 2
    /\ \E i, j \in 1..Len(tasks) :
           tasks[i].panicked /\ ~tasks[j].panicked /\ TaskFailed(j)

-----------------------------------------------------------------------------
(* GogsClient::request on its own, over every status a response can carry *)

\* every three-digit HTTP status, with a body that is unreadable, empty or "zz"
AnyReplies ==
    {Reply(FALSE, 0, None, FALSE)} \cup
    {Reply(TRUE, s, t, FALSE) :
        s \in 100..599, t \in {None, Some(s_empty), Some(s_zz)}}

\* one call of GogsClient::request: the log keeps the reply next to the request
client_request ==
    /\ pc = "start"
    /\ \E reply \in AnyReplies :
         /\ requests' = <<[req |-> req_list_user_repos, reply |-> reply,
                           ok |-> request(reply).ok]>>
         /\ result' = Some(request(reply))
    /\ pc' = "done"
    /\ UNCHANGED <<cmd, config, profile, target, stdout, stderr, exit, repos,
                   tasks, next_handle, all_issues, issues, repo_labels, label>>

NextTransport == client_request

SpecTransport == Init /\ [][NextTransport]_vars

\* the error class the status belongs to
ClassOf(status) ==
    CASE status = 401 -> "auth"
      [] status = 403 -> "forbidden"
      [] status = 404 -> "not_found"
      [] OTHER -> "api"

\* C17: a response with a status outside 200..299 is turned into an error, of
\* the authentication class for 401, forbidden for 403, not-found for 404 and
\* the generic API class otherwise, which carries the status and the text of
\* the response body (empty when the body cannot be read); a response with a
\* status in 200..299 is returned as success.
C17_StatusMapping ==
    pc = "done" /\ Len(requests) = 1 /\ requests[1].reply.sent =>
        LET reply == requests[1].reply
            res == result.v
        IN  /\ res.ok <=> (reply.status >= 200 /\ reply.status <= 299)
            /\ ~res.ok =>
                   /\ res.err.kind = ClassOf(reply.status)
                   /\ res.err.kind = "api" =>
                          /\ res.err.detail.status = reply.status
                          /\ reply.text.some =>
                                 res.err.detail.text = reply.text.v
                          /\ ~reply.text.some => res.err.detail.text = <<>>

\* a redirect with a body came back as a generic API error
C17_Witness ==
    /\ pc = "done" /\ Len(requests) = 1 /\ requests[1].reply.sent
    /\ requests[1].reply.status = 302
    /\ requests[1].reply.text = Some(s_zz)
    /\ ~result.v.ok /\ result.v.err.kind = "api"

-----------------------------------------------------------------------------

\* the repository string the command works with: --repo, else the default
RepoString == IF cmd.repo.some THEN cmd.repo ELSE config.default_repo
\* owner/repo: one slash, with something before it and something after it
WellFormedRepo(s) ==
    \E k \in 2..(Len(s) - 1) :
        s[k] = 47 /\ \A j \in 1..Len(s) : j # k => s[j] # 47

\* C18 as stated: a command that targets one repository, started with no
\* repository string, or with one that is not owner/repo with a non-empty
\* owner and a non-empty name, fails with a configuration or validation error
\* and has sent no request.
C18_MalformedRepoRejected ==
    /\ pc # "start" /\ takes_repo(cmd)
    /\ ~RepoString.some \/ ~WellFormedRepo(RepoString.v)
    => /\ Done /\ ~result.v.ok
       /\ result.v.err.kind \in DispatchErrors
       /\ requests = <<>>

-----------------------------------------------------------------------------

\* the list-issues requests sent for repos[i]
ListRequestsFor(i) ==
    {k \in 1..Len(requests) :
        requests[k].req =
            req_list_issues(repos[i].owner, repos[i].name, state_of(cmd))}

\* C19: in a run of issue list --all the enumeration is requested exactly once
\* and first, and has succeeded before any list-issues request is sent; there
\* is one task per enumerated repository from the spawn on, so all are started
\* before any is joined; every other request is the list-issues request of
\* some repository's task, and a repository gets none while its task is
\* pending and exactly one afterwards, failed or not: nothing is retried.
C19_OneRequestPerRepo ==
    ListAll =>
        /\ requests[1].req = req_list_user_repos
        /\ \A k \in 2..Len(requests) :
               /\ requests[1].ok
               /\ requests[k].req # req_list_user_repos
               /\ \E i \in 1..Len(repos) : k \in ListRequestsFor(i)
        /\ requests[1].ok => Len(tasks) = Len(repos)
        /\ ~requests[1].ok => tasks = <<>> /\ repos = <<>>
        /\ \A i \in 1..Len(tasks) :
               Cardinality(ListRequestsFor(i)) =
                   IF tasks[i].state = "spawned" THEN 0 ELSE 1
        /\ Done /\ requests[1].ok => Len(requests) = 1 + Len(repos)

\* two repositories, the second one's request answered first and the first
\* one's failed; the run ended with three requests sent
C19_Witness ==
    /\ ListAll /\ Done
    /\ Len(repos) = 2 /\ Len(requests) = 3
    /\ CompletedAt(1, 2) /\ CompletedAt(2, 1)
    /\ ~requests[3].ok

-----------------------------------------------------------------------------
(* issue list --all under fair scheduling *)

\* the command line is a plain issue list --all: human output, no label filter
dispatch_list_all ==
    dispatch /\ cmd'.kind = "list" /\ cmd'.all /\ ~cmd'.json /\ cmd'.labels = <<>>

\* the i-th task takes its step: its request returns or fails, or it panics
task_completes(i) == i \in 1..Len(tasks) /\ (task_run(i) \/ task_panic(i))

NextListAll ==
    \/ dispatch_list_all
    \/ list_all_enumerate
    \/ \E i \in 1..Len(tasks) : task_run(i)
    \/ \E i \in 1..Len(tasks) : task_panic(i)
    \/ list_all_join

\* every request returns or fails, by the client's 30 s timeout at the latest;
\* the runtime schedules every spawned task and the joining task
\* handle.await returns for the next handle: list_all_join's step.  The first
\* disjunct is no step of the run; it spells out when list_all_join is enabled,
\* which is whenever the awaited task has finished
handle_await_returns ==
    \/ /\ pc = "join"
       /\ tasks[next_handle].state = "finished"
       /\ pc' = "done"
       /\ UNCHANGED <<cmd, config, profile, target, requests, stdout, stderr,
                      result, exit, repos, tasks, next_handle, all_issues,
                      issues, repo_labels, label>>
    \/ list_all_join

Fairness ==
    /\ WF_vars(list_all_enumerate)
    /\ \A i \in 1..MaxRepos : WF_vars(task_completes(i))
    /\ WF_vars(handle_await_returns)

SpecListAllFair == Init /\ [][NextListAll]_vars /\ Fairness

\* C20: under fair scheduling and requests that all return or fail, an issue
\* list --all that has started ends, having joined every task it spawned and,
\* unless the enumeration failed, rendered; until then a spawned task can always
\* take its step whatever the other tasks are doing, and a task that has
\* finished keeps its outcome: none is cancelled, none waits on another.
C20_ListAllTerminates ==
    /\ [](pc = "join" =>
              \A i \in 1..Len(tasks) :
                  tasks[i].state = "spawned" => ENABLED task_run(i))
    /\ [][\A i \in 1..Len(tasks) :
              tasks[i].state # "spawned" =>
                  /\ tasks'[i].state # "spawned"
                  /\ tasks'[i].result = tasks[i].result]_vars
    /\ (pc = "list_all") ~>
           (/\ pc = "done"
            /\ \A i \in 1..Len(tasks) : tasks[i].state = "joined"
            /\ requests # <<>> /\ requests[1].ok =>
                   stdout # <<>> /\ Len(tasks) = Len(repos))

\* the run ended and rendered after the first repository's request got no
\* response and the second repository's, answered first, was listed
C20_Witness ==
    /\ Done /\ Rendered /\ cmd.all
    /\ Len(tasks) = 2
    /\ CompletedAt(1, 2)
    /\ ~tasks[1].result.ok /\ tasks[1].result.err.kind = "send"
    /\ PairsOf(repos[2].full_name) # {}

====
